---- MODULE Spec2Model ----
(***************************************************************************)
(* Model of the expense tracker client.  App (src/src/App.tsx) mounts one  *)
(* of three components at a time, and each has a specification of its own  *)
(* in which the other components keep their initial state:                 *)
(*                                                                         *)
(*   Spec      the ExpenseAnalytics component (ExpenseList.tsx, lines      *)
(*             601-1002).  It holds four pieces of React state (analytics, *)
(*             message, selectedTimeframe, isLoading); everything else     *)
(*             (groupedAnalytics, sortedChartData, filteredChartData,      *)
(*             totalExpenses, categoryTotals and the rendered cards) is    *)
(*             recomputed from that state on every render and is therefore *)
(*             an operator over the state.                                 *)
(*   SpecPair  two runs of that derived-data computation, stepped record   *)
(*             by record and stage by stage in every interleaving.         *)
(*   SpecForm  the ExpenseForm component (ExpenseForm.tsx) with the        *)
(*             createExpense calls it has under way.                       *)
(*   SpecFormFair  SpecForm with createExpense calls that settle (the      *)
(*             axios instance has a timeout).                              *)
(*   SpecList  the ExpensesList component (ExpenseList.tsx, lines 42-127)  *)
(*             with its debounce timer, the getExpenses and deleteExpense  *)
(*             calls under way, and the expenses the server holds.         *)
(*                                                                         *)
(* Amounts of analytics records are integers (whole rupees); JSON cannot   *)
(* carry NaN or Infinity, so a fetched totalAmount is always finite.       *)
(***************************************************************************)
EXTENDS Integers, Sequences, FiniteSets, TLC

VARIABLES
    analytics,          \* useState<AnalyticsData[]>([])
    message,            \* useState<string | null>(null)
    selectedTimeframe,  \* useState("last6Months")
    isLoading,          \* useState<boolean>(true)
    locale,             \* the runtime's default locale (toLocaleDateString(undefined, ...))
    invocations,        \* two runs of the derived-data computation, each with its own locals
    expense,            \* ExpenseForm: useState<ExpenseFormData>
    touched,            \* ExpenseForm: useState<Record<string, boolean>>({}), the keys set to true
    errors,             \* ExpenseForm: useState<ValidationErrors>({})
    formMessage,        \* ExpenseForm: useState<string | null>(null)
    isSubmitting,       \* ExpenseForm: useState<boolean>(false)
    createExpenseCalls, \* the createExpense calls that have not settled, by their argument
    clock,              \* the instant and the timezone the form runs in
    edits,              \* field edits and blurs since the form was mounted or reset
    lastEvent,          \* the event the form handled last: its type, target and value
    expenses,             \* ExpensesList: useState<Expense[]>([])
    selectedDateRange,    \* ExpensesList: useState<string | undefined>(undefined)
    selectedCategories,   \* ExpensesList: useState<string[]>([])
    selectedPaymentModes, \* ExpensesList: useState<string[]>([])
    listMessage,          \* ExpensesList: useState<string | null>(null)
    listIsLoading,        \* ExpensesList: useState<boolean>(true)
    searchTerm,           \* ExpensesList: useState<string>("")
    timers,               \* the debounce timers that are pending, each with its closure
    getExpensesCalls,     \* the getExpenses calls that have not settled, oldest first
    deleteExpenseCalls,   \* the deleteExpense calls that have not settled
    store,                \* the ids of the expenses the server holds
    deletedIds,           \* the ids for which handleDeleteExpense has succeeded
    burst,                \* changes of searchTerm since the last debounce timer fired
    changes               \* filter changes, search edits and deletions of the user so far

\* the state of the ExpenseAnalytics component
analyticsVars == <<analytics, message, selectedTimeframe, isLoading, locale>>

\* the locals of the two runs of the derived-data computation
pairVars == <<invocations>>

\* the state of the ExpenseForm component and its environment
formVars ==
    <<expense, touched, errors, formMessage, isSubmitting, createExpenseCalls, clock, edits,
      lastEvent>>

\* the state of the ExpensesList component and its environment
listVars ==
    <<expenses, selectedDateRange, selectedCategories, selectedPaymentModes, listMessage,
      listIsLoading, searchTerm, timers, getExpensesCalls, deleteExpenseCalls, store,
      deletedIds, burst, changes>>

vars == <<analyticsVars, pairVars, formVars, listVars>>

\* what the ExpenseAnalytics component does not touch
outsideAnalytics == <<pairVars, formVars, listVars>>

\* what a run of the derived-data computation does not touch
outsidePair == <<analyticsVars, formVars, listVars>>

\* what the ExpenseForm component does not touch
outsideForm == <<analyticsVars, pairVars, listVars>>

\* what the ExpensesList component does not touch
outsideList == <<analyticsVars, pairVars, formVars>>

-----------------------------------------------------------------------------
(* Bounds of the model *)

\* number of arbitrary records at the head of a fetched response
MaxRecords == 2
\* largest number of filter changes, search edits and deletions on one list
MaxChanges == 2
\* largest number of field edits and blurs the user makes on one form
MaxEdits == 3
\* largest number of further records, one per month of an earlier year, at its tail
MaxHistory == 5

-----------------------------------------------------------------------------
(* Program constants *)

\* Object.keys(CATEGORY_COLORS), in insertion order
KnownCategories == <<"Rental", "Groceries", "Entertainment", "Travel", "Others">>

\* position of a known category in Object.keys(CATEGORY_COLORS)
CategoryPosition(c) == CHOOSE i \in 1..Len(KnownCategories) : KnownCategories[i] = c

\* the values of the timeframe <select>
Timeframes == {"all", "last6Months", "last3Months"}

NoMessage == "null"

-----------------------------------------------------------------------------
(* The records the analytics endpoint may answer with *)

Locales == {"en-US", "de-DE"}

\* (year, month) pairs of the arbitrary records; month 13 is not a calendar month
InputMonths == {<<2024, 1>>, <<2024, 13>>}

\* categories of the arbitrary records; "Education" is accepted by the expense
\* form but is no key of CATEGORY_COLORS
InputCategories == {"Rental", "Groceries", "Education"}

InputAmounts == {-1, 0, 1}

AnalyticsData ==
    { [year |-> ym[1], month |-> ym[2], category |-> c, totalAmount |-> a] :
        ym \in InputMonths, c \in InputCategories, a \in InputAmounts }

\* k records of the year before, newest month first
RECURSIVE History(_)
History(k) ==
    IF k = 0 THEN <<>>
    ELSE <<[year |-> 2022, month |-> k, category |-> "Travel", totalAmount |-> 1]>>
         \o History(k - 1)

SeqsUpTo(S, n) == UNION { [1..k -> S] : k \in 0..n }

\* the response ends with no, one or MaxHistory records of the year before
HistoryLengths == {0, 1, MaxHistory}

Responses ==
    { head \o History(k) : head \in SeqsUpTo(AnalyticsData, MaxRecords), k \in HistoryLengths }

-----------------------------------------------------------------------------
(* groupedAnalytics: analytics.reduce(...), lines 670-689 *)

\* `${item.year}-${item.month}`
GroupKey(item) == <<item.year, item.month>>

\* new Date(item.year, item.month - 1): a month index outside 0..11 carries
\* into the year, so month 13 of 2024 is January 2025
DateOfMonth(year, month) ==
    [year |-> year + ((month - 1) \div 12), monthIndex |-> (month - 1) % 12]

MonthShort(loc) ==
    IF loc = "en-US"
    THEN <<"Jan", "Feb", "Mar", "Apr", "May", "Jun",
           "Jul", "Aug", "Sep", "Oct", "Nov", "Dec">>
    ELSE <<"Jan.", "Feb.", "Maerz", "Apr.", "Mai", "Juni",
           "Juli", "Aug.", "Sept.", "Okt.", "Nov.", "Dez.">>

\* date.toLocaleDateString(loc, { month: "short", year: "numeric" })
ToLocaleDateString(date, loc) == <<MonthShort(loc)[date.monthIndex + 1], date.year>>

\* a new object that starts with a zero entry for every key of CATEGORY_COLORS
NewChartDataItemZeroed(item, loc) ==
    [ key      |-> GroupKey(item),
      month    |-> <<item.year, item.month>>,
      year     |-> item.year,
      monthNum |-> item.month,
      label    |-> ToLocaleDateString(DateOfMonth(item.year, item.month), loc),
      totals   |-> [c \in {"Rental", "Groceries", "Entertainment", "Travel", "Others"} |-> 0] ]

\* the object created on first sight of a key, lines 674-682; the category
\* properties of the ChartDataItem are kept in `totals`
NewChartDataItem(item, loc) ==
    [ key      |-> GroupKey(item),
      month    |-> <<item.year, item.month>>,   \* `${year}-${month padded to 2}`
      year     |-> item.year,
      monthNum |-> item.month,
      label    |-> ToLocaleDateString(DateOfMonth(item.year, item.month), loc),
      totals   |-> << >> ]

\* (month[category] as number) || 0 : an absent property and 0 both read as 0
AmountOf(month, category) ==
    IF category \in DOMAIN month.totals /\ month.totals[category] # 0
    THEN month.totals[category]
    ELSE 0

\* a reducer that assigns the amount instead of adding it
AddToItemOverwrite(month, item) ==
    [month EXCEPT !.totals =
        [c \in (DOMAIN month.totals) \cup {item.category} |->
            IF c = item.category THEN item.totalAmount ELSE month.totals[c]]]

\* acc[key][item.category] = (acc[key][item.category] || 0) + item.totalAmount
AddToItem(month, item) ==
    [month EXCEPT !.totals =
        [c \in (DOMAIN month.totals) \cup {item.category} |->
            IF c = item.category
            THEN AmountOf(month, c) + item.totalAmount
            ELSE month.totals[c]]]

\* one step of the reducer; acc keeps the objects in the order their keys were
\* inserted, the order Object.values returns them in
GroupStep(acc, item, loc) ==
    IF \E i \in 1..Len(acc) : acc[i].key = GroupKey(item)
    THEN [i \in 1..Len(acc) |->
            IF acc[i].key = GroupKey(item) THEN AddToItem(acc[i], item) ELSE acc[i]]
    ELSE Append(acc, AddToItem(NewChartDataItem(item, loc), item))

RECURSIVE GroupReduce(_, _, _)
GroupReduce(acc, items, loc) ==
    IF items = <<>> THEN acc
    ELSE GroupReduce(GroupStep(acc, Head(items), loc), Tail(items), loc)

groupedAnalytics == GroupReduce(<<>>, analytics, locale)

-----------------------------------------------------------------------------
(* sortedChartData: Object.values(groupedAnalytics).sort(...), lines 692-694 *)

NaNTime == [nan |-> TRUE, t |-> 0]

\* new Date(a.month).getTime() for the string "YYYY-MM": the time of the first
\* of that month (counted here in months, which orders as milliseconds do), and
\* NaN (Invalid Date) when MM is not 01..12
GetTime(month) ==
    IF month[2] \in 1..12
    THEN [nan |-> FALSE, t |-> month[1] * 12 + (month[2] - 1)]
    ELSE NaNTime

\* the comparator (a, b) => time(a) - time(b); a NaN result counts as +0
CompareMonths(a, b) ==
    LET ta == GetTime(a.month)
        tb == GetTime(b.month)
    IN IF ta.nan \/ tb.nan THEN 0 ELSE ta.t - tb.t

\* insert x behind the last element that does not compare greater than x
RECURSIVE InsertByMonth(_, _)
InsertByMonth(sorted, x) ==
    IF sorted = <<>> THEN <<x>>
    ELSE IF CompareMonths(sorted[Len(sorted)], x) > 0
         THEN Append(InsertByMonth(SubSeq(sorted, 1, Len(sorted) - 1), x),
                     sorted[Len(sorted)])
         ELSE Append(sorted, x)

\* Array.prototype.sort is stable; modelled as an insertion sort
RECURSIVE SortByMonth(_)
SortByMonth(items) ==
    IF items = <<>> THEN <<>>
    ELSE InsertByMonth(SortByMonth(SubSeq(items, 1, Len(items) - 1)), items[Len(items)])

sortedChartData == SortByMonth(groupedAnalytics)

-----------------------------------------------------------------------------
(* filteredChartData: the switch on selectedTimeframe, lines 697-707 *)

\* items.slice(0, n): the leading buckets instead of the trailing ones
SliceFirst(items, n) ==
    SubSeq(items, 1, IF Len(items) > n THEN n ELSE Len(items))

\* items.slice(-n)
SliceLast(items, n) ==
    SubSeq(items, IF Len(items) > n THEN Len(items) - n + 1 ELSE 1, Len(items))

FilterByTimeframe(items, timeframe) ==
    CASE timeframe = "last3Months" -> SliceLast(items, 3)
      [] timeframe = "last6Months" -> SliceLast(items, 6)
      [] OTHER -> items

filteredChartData == FilterByTimeframe(sortedChartData, selectedTimeframe)

-----------------------------------------------------------------------------
(* totalExpenses, lines 710-718 *)

\* a month total over every category the bucket holds, known or not
RECURSIVE SumOfAmounts(_, _)
SumOfAmounts(month, present) ==
    IF present = {} THEN 0
    ELSE LET c == CHOOSE c \in present : TRUE
         IN month.totals[c] + SumOfAmounts(month, present \ {c})

MonthTotalAllCategories(month, categories) == SumOfAmounts(month, DOMAIN month.totals)

\* Object.keys(CATEGORY_COLORS).reduce((sum, category) => sum + (month[category] || 0), 0)
RECURSIVE MonthTotal(_, _)
MonthTotal(month, categories) ==
    IF categories = <<>> THEN 0
    ELSE MonthTotal(month, SubSeq(categories, 1, Len(categories) - 1))
         + AmountOf(month, categories[Len(categories)])

\* items.reduce((total, month) => total + monthTotal, 0)
RECURSIVE SumMonths(_)
SumMonths(items) ==
    IF items = <<>> THEN 0
    ELSE SumMonths(SubSeq(items, 1, Len(items) - 1))
         + MonthTotal(items[Len(items)], KnownCategories)

totalExpenses == SumMonths(filteredChartData)

-----------------------------------------------------------------------------
(* categoryTotals, lines 721-728 *)

\* items.reduce((sum, month) => sum + (month[category] || 0), 0)
RECURSIVE CategoryTotal(_, _)
CategoryTotal(items, category) ==
    IF items = <<>> THEN 0
    ELSE CategoryTotal(SubSeq(items, 1, Len(items) - 1), category)
         + AmountOf(items[Len(items)], category)

\* a comparator that sorts ascending
CompareTotalsAscending(a, b) == a.total - b.total

\* a comparator that breaks ties by the lexical order of the category names
CompareTotalsLexicalTies(a, b) ==
    IF a.total # b.total THEN b.total - a.total
    ELSE IF a.category = b.category THEN 0
    ELSE IF \E i, j \in 1..5 :
               /\ i < j
               /\ <<"Entertainment", "Groceries", "Others", "Rental", "Travel">>[i] = a.category
               /\ <<"Entertainment", "Groceries", "Others", "Rental", "Travel">>[j] = b.category
         THEN -1 ELSE 1

\* the comparator (a, b) => b.total - a.total
CompareTotals(a, b) == b.total - a.total

RECURSIVE InsertByTotal(_, _)
InsertByTotal(sorted, x) ==
    IF sorted = <<>> THEN <<x>>
    ELSE IF CompareTotals(sorted[Len(sorted)], x) > 0
         THEN Append(InsertByTotal(SubSeq(sorted, 1, Len(sorted) - 1), x),
                     sorted[Len(sorted)])
         ELSE Append(sorted, x)

\* Array.prototype.sort is stable; modelled as an insertion sort
RECURSIVE SortByTotal(_)
SortByTotal(entries) ==
    IF entries = <<>> THEN <<>>
    ELSE InsertByTotal(SortByTotal(SubSeq(entries, 1, Len(entries) - 1)),
                       entries[Len(entries)])

\* Object.keys(CATEGORY_COLORS).map(category => ({ category, total, color }))
MapCategoryTotals(items) ==
    [i \in 1..Len(KnownCategories) |->
        [category |-> KnownCategories[i],
         total    |-> CategoryTotal(items, KnownCategories[i])]]

categoryTotals == SortByTotal(MapCategoryTotals(filteredChartData))

-----------------------------------------------------------------------------
(* What the component renders, lines 832-997 *)

Abs(x) == IF x < 0 THEN -x ELSE x

\* the nearest integer to a / b (b > 0), a tie going away from zero
RoundHalfAway(a, b) ==
    LET q == (2 * Abs(a) + b) \div (2 * b)
    IN IF a < 0 THEN -q ELSE q

\* ((total / totalExpenses) * 100).toFixed(1), lines 780 and 949: the text shown
\* as a category's share, in tenths of a percent, or NaN / Infinity when the
\* divisor is 0
Percentage(total, grandTotal) ==
    IF grandTotal = 0
    THEN IF total = 0 THEN [kind |-> "NaN", tenths |-> 0]
         ELSE IF total > 0 THEN [kind |-> "Infinity", tenths |-> 0]
         ELSE [kind |-> "-Infinity", tenths |-> 0]
    ELSE [kind   |-> "number",
          tenths |-> IF grandTotal > 0
                     THEN RoundHalfAway(total * 1000, grandTotal)
                     ELSE RoundHalfAway(-(total * 1000), -grandTotal)]

\* isLoading ? spinner : filteredChartData.length === 0 ? "No data available" : charts
chartsShown == ~isLoading /\ Len(filteredChartData) # 0

noDataShown == ~isLoading /\ Len(filteredChartData) = 0

\* !isLoading && filteredChartData.length > 0 && <Summary Cards>
summaryShown == ~isLoading /\ Len(filteredChartData) > 0

\* the share texts of the Category Breakdown list, one per entry of categoryTotals
shownPercentages ==
    LET entries == categoryTotals
        grandTotal == totalExpenses
    IN IF chartsShown
       THEN [i \in 1..Len(entries) |-> Percentage(entries[i].total, grandTotal)]
       ELSE <<>>

NotRendered == [kind |-> "not rendered", value |-> 0]

\* (totalExpenses / filteredChartData.length).toLocaleString(undefined,
\*   { maximumFractionDigits: 0 }), lines 968-971
FormatAverage(total, count) == RoundHalfAway(total, count)

\* an average over every month of the series instead of the windowed ones
averageMonthlyCardAllMonths ==
    IF summaryShown
    THEN [kind  |-> "number",
          value |-> FormatAverage(totalExpenses, Len(sortedChartData))]
    ELSE NotRendered

averageMonthlyCard ==
    IF summaryShown
    THEN [kind  |-> "number",
          value |-> FormatAverage(totalExpenses, Len(filteredChartData))]
    ELSE NotRendered

\* categoryTotals[0]?.category || "None", line 984
HighestCategory(entries) ==
    IF Len(entries) = 0 THEN "None" ELSE entries[1].category

highestCategoryCard ==
    IF summaryShown
    THEN [kind |-> "text", value |-> HighestCategory(categoryTotals)]
    ELSE [kind |-> "not rendered", value |-> ""]

-----------------------------------------------------------------------------
(* The expense form, src/src/components/ExpenseForm.tsx: its values and its  *)
(* validation.  A text is the sequence of its characters; the notes are      *)
(* modelled by their length, the only thing the form looks at; a date is     *)
(* <<>> for the empty string and <<d>> for the calendar day d, counted from  *)
(* the current day of the UTC calendar.                                      *)

FormCategories ==
    <<"Rental", "Groceries", "Entertainment", "Education", "Travel", "Others">>

FormPaymentModes == <<"UPI", "Credit Card", "Net Banking", "Cash">>

MAX_AMOUNT == 100000

\* the keys of the expense object, in the order of Object.entries
ExpenseKeys == <<"amount", "category", "notes", "date", "paymentMode">>

\* field.label.toLowerCase().split(" ")[0] of the five field labels, lines 342-344 and 373-375
BlurNames == {"amount", "category", "notes", "date", "payment"}

\* the name the onBlur of a field hands to handleBlur, by the field's key in the
\* form data: the labels are "Amount (...)", "Category", "Notes", "Date" and
\* "Payment Mode", lines 224, 234, 250, 267 and 281
BlurNameOf ==
    [amount      |-> "amount",
     category    |-> "category",
     notes       |-> "notes",
     date        |-> "date",
     paymentMode |-> "payment"]

Includes(list, value) == \E i \in 1..Len(list) : list[i] = value

DigitChars == <<"0", "1", "2", "3", "4", "5", "6", "7", "8", "9">>

IsDigit(ch) == Includes(DigitChars, ch)

DigitValue(ch) == (CHOOSE i \in 1..Len(DigitChars) : DigitChars[i] = ch) - 1

CountOf(text, ch) == Cardinality({ i \in 1..Len(text) : text[i] = ch })

\* /^\d*\.?\d*$/.test(value), line 148
MatchesAmountPattern(text) ==
    /\ \A i \in 1..Len(text) : IsDigit(text[i]) \/ text[i] = "."
    /\ CountOf(text, ".") <= 1

RECURSIVE PowerOfTen(_)
PowerOfTen(n) == IF n = 0 THEN 1 ELSE 10 * PowerOfTen(n - 1)

\* the digits of a text read as one decimal numeral, the point left out
RECURSIVE DigitsValue(_)
DigitsValue(text) ==
    IF text = <<>> THEN 0
    ELSE LET rest == DigitsValue(SubSeq(text, 1, Len(text) - 1))
             last == text[Len(text)]
         IN IF last = "." THEN rest ELSE 10 * rest + DigitValue(last)

NaN == [nan |-> TRUE, num |-> 0, den |-> 1]

\* digits after the decimal point
DecimalsOf(text) ==
    IF CountOf(text, ".") = 0 THEN 0
    ELSE Len(text) - (CHOOSE i \in 1..Len(text) : text[i] = ".")

\* Number(value) of a string: the empty string is 0, an optionally signed
\* decimal numeral with at least one digit is its value (num / den), anything
\* else (a lone ".", letters) is NaN
ToNumber(text) ==
    IF text = <<>> THEN [nan |-> FALSE, num |-> 0, den |-> 1]
    ELSE LET negative == Head(text) = "-"
             body == IF negative THEN Tail(text) ELSE text
         IN IF MatchesAmountPattern(body) /\ \E i \in 1..Len(body) : IsDigit(body[i])
            THEN [nan |-> FALSE,
                  num |-> IF negative THEN 0 - DigitsValue(body) ELSE DigitsValue(body),
                  den |-> PowerOfTen(DecimalsOf(body))]
            ELSE NaN

\* x > n and x <= n of JavaScript numbers: false whenever x is NaN
GreaterThan(x, n) == ~x.nan /\ x.num > n * x.den

AtMost(x, n) == ~x.nan /\ x.num <= n * x.den

\* n.toString() of a non-negative integer
RECURSIVE NumberToString(_)
NumberToString(n) ==
    IF n < 10 THEN <<DigitChars[n + 1]>>
    ELSE Append(NumberToString(n \div 10), DigitChars[(n % 10) + 1])

AmountRequired == "Amount is required"

AmountNotPositive == "Amount must be greater than 0"

\* `Amount cannot exceed ...${MAX_AMOUNT.toLocaleString()}`
AmountTooLarge == "Amount cannot exceed 100,000"

\* the instant of a validation: the hour of the current UTC day, and the offset
\* of the user's timezone from UTC in hours
Clocks == {[hour |-> 12, offset |-> 0], [hour |-> 12, offset |-> -5]}

\* new Date(value).getTime() of a date string, in hours: midnight UTC of the day
DateTime(date) == date[1] * 24

\* the calendar day of the instant in the user's timezone
LocalDay(now) == (now.hour + now.offset) \div 24

\* today.setHours(23, 59, 59, 999): the end of the user's day, as the first
\* instant (in hours of UTC) that lies after it
EndOfToday(now) == (LocalDay(now) + 1) * 24 - now.offset

\* validateField, lines 80-111
validateField(name, value, now) ==
    CASE name = "amount" ->
            IF value = <<>> THEN AmountRequired
            ELSE IF AtMost(ToNumber(value), 0) THEN AmountNotPositive
            ELSE IF GreaterThan(ToNumber(value), MAX_AMOUNT) THEN AmountTooLarge
            ELSE ""
      [] name = "category" ->
            IF ~Includes(FormCategories, value)
            THEN "Please select a valid category" ELSE ""
      [] name = "date" ->
            IF value = <<>> THEN "Date is required"
            ELSE IF DateTime(value) >= EndOfToday(now)
            THEN "Date cannot be in the future" ELSE ""
      [] name = "paymentMode" ->
            IF ~Includes(FormPaymentModes, value)
            THEN "Please select a valid payment mode" ELSE ""
      [] name = "notes" ->
            IF value > 500 THEN "Notes cannot exceed 500 characters" ELSE ""
      [] OTHER -> ""

\* the expense object of a fresh or reset form, lines 69-75 and 187-193
EmptyExpense ==
    [amount      |-> <<>>,
     category    |-> "Others",
     notes       |-> 0,
     date        |-> <<0>>,
     paymentMode |-> "UPI"]

\* errors[key] of an errors object without that key, and of one holding "" there
NoError == ""

ErrorKeys == {"amount", "category", "notes", "date", "paymentMode", "payment"}

-----------------------------------------------------------------------------
(* The expenses list, the ExpensesList component of                          *)
(* src/src/components/ExpenseList.tsx, lines 42-127: the expenses the server *)
(* holds, the query it answers, and the search filter of the client.  A      *)
(* string that is searched is read as the sequence of its characters.        *)

\* useState<string | undefined>(undefined)
NoDateRange == "undefined"

\* the delay of the debounce timer in milliseconds, line 97
DebounceMs == 500

\* the expenses the server holds when the list is mounted
AllExpenses ==
    << [_id |-> "e1", category |-> "Rental", paymentMode |-> "UPI",
        notes |-> "rent", daysAgo |-> 10],
       [_id |-> "e2", category |-> "Travel", paymentMode |-> "Cash",
        notes |-> "Taxi", daysAgo |-> 60] >>

ExpenseIds == { AllExpenses[i]._id : i \in 1..Len(AllExpenses) }

\* the characters of the strings the search looks into
Chars(word) ==
    CASE word = "Rental" -> <<"R", "e", "n", "t", "a", "l">>
      [] word = "Travel" -> <<"T", "r", "a", "v", "e", "l">>
      [] word = "UPI"    -> <<"U", "P", "I">>
      [] word = "Cash"   -> <<"C", "a", "s", "h">>
      [] word = "rent"   -> <<"r", "e", "n", "t">>
      [] word = "Taxi"   -> <<"T", "a", "x", "i">>

UpperCaseChars == <<"R", "E", "N", "T", "U", "P", "I", "C">>

LowerCaseChars == <<"r", "e", "n", "t", "u", "p", "i", "c">>

\* String.prototype.toLowerCase
ToLowerCase(text) ==
    [i \in 1..Len(text) |->
        IF Includes(UpperCaseChars, text[i])
        THEN LowerCaseChars[CHOOSE k \in 1..Len(UpperCaseChars) : UpperCaseChars[k] = text[i]]
        ELSE text[i]]

\* String.prototype.includes
IncludesText(text, term) ==
    \E start \in 1..(Len(text) + 1) :
        /\ start + Len(term) - 1 <= Len(text)
        /\ SubSeq(text, start, start + Len(term) - 1) = term

\* the predicate of fetchedExpenses.filter, lines 68-76
MatchesSearch(item, term) ==
    \/ IncludesText(ToLowerCase(Chars(item.notes)), ToLowerCase(term))
    \/ IncludesText(ToLowerCase(Chars(item.category)), ToLowerCase(term))
    \/ IncludesText(ToLowerCase(Chars(item.paymentMode)), ToLowerCase(term))

\* filteredExpenses, lines 66-77: an empty search term keeps every expense
FilterBySearch(fetchedExpenses, term) ==
    IF term = <<>> THEN fetchedExpenses
    ELSE SelectSeq(fetchedExpenses, LAMBDA item : MatchesSearch(item, term))

\* the server's reading of the dateRange parameter
InDateRange(item, dateRange) ==
    CASE dateRange = "Last 30 Days" -> item.daysAgo <= 30
      [] dateRange = "Last 90 Days" -> item.daysAgo <= 90
      [] OTHER -> TRUE

\* the server's answer to GET / with the params of getExpenses: an empty
\* categories or paymentModes parameter does not filter
QueryExpenses(held, filters) ==
    SelectSeq(AllExpenses,
              LAMBDA item :
                 /\ item._id \in held
                 /\ InDateRange(item, filters.selectedDateRange)
                 /\ \/ filters.selectedCategories = <<>>
                    \/ Includes(filters.selectedCategories, item.category)
                 /\ \/ filters.selectedPaymentModes = <<>>
                    \/ Includes(filters.selectedPaymentModes, item.paymentMode))

\* the state a fetchExpenses closure has captured
Closure(dateRange, categories, paymentModes, term) ==
    [selectedDateRange    |-> dateRange,
     selectedCategories   |-> categories,
     selectedPaymentModes |-> paymentModes,
     searchTerm           |-> term]

\* a getExpenses call on its way to the server
NewGetExpensesCall(closure, trigger, coalesced) ==
    [closure   |-> closure,
     phase     |-> "sent",
     response  |-> <<>>,
     trigger   |-> trigger,
     coalesced |-> coalesced]

\* setTimeout(() => fetchExpenses(), 500), lines 95-97
NewTimer(closure) == [closure |-> closure, elapsed |-> 0]

-----------------------------------------------------------------------------
(* The components that are not mounted, and the runs that have not started *)

Invocations == {1, 2}

\* a run that has not started
NotStarted(records, timeframe) ==
    [analytics         |-> records,
     selectedTimeframe |-> timeframe,
     pc                |-> "start",
     index             |-> 1,
     acc               |-> <<>>,
     sortedChartData   |-> <<>>,
     filteredChartData |-> <<>>,
     totalExpenses     |-> 0,
     categoryTotals    |-> <<>>,
     overlapped        |-> FALSE]

\* no run of the computation is under way
PairIdle == invocations = [inv \in Invocations |-> NotStarted(<<>>, "all")]

\* an event the form handles: a change or blur of a field (the target is the
\* field's key in the form data), a submit, the settlement of createExpense, or
\* a message timeout; value holds e.target.value of a change of the amount field
Event(type, target, value) == [type |-> type, target |-> target, value |-> value]

\* the form as it is mounted, lines 68-78, with no createExpense call under way
FormIdle ==
    /\ expense = EmptyExpense
    /\ touched = {}
    /\ errors = [key \in ErrorKeys |-> NoError]
    /\ formMessage = NoMessage
    /\ isSubmitting = FALSE
    /\ createExpenseCalls = {}
    /\ clock = [hour |-> 12, offset |-> 0]
    /\ edits = 0
    /\ lastEvent = Event("mount", "form", <<>>)

\* the list before it is mounted: nothing displayed, no call, no timer
ListIdle ==
    /\ expenses = <<>>
    /\ selectedDateRange = NoDateRange
    /\ selectedCategories = <<>>
    /\ selectedPaymentModes = <<>>
    /\ listMessage = NoMessage
    /\ listIsLoading = TRUE
    /\ searchTerm = <<>>
    /\ timers = {}
    /\ getExpensesCalls = <<>>
    /\ deleteExpenseCalls = {}
    /\ store = ExpenseIds
    /\ deletedIds = {}
    /\ burst = 0
    /\ changes = 0

-----------------------------------------------------------------------------
(* The state machine *)

Init ==
    /\ analytics = <<>>
    /\ message = NoMessage
    /\ selectedTimeframe = "last6Months"
    /\ isLoading = TRUE
    /\ locale \in Locales
    /\ PairIdle
    /\ FormIdle
    /\ ListIdle

\* fetchAnalytics, lines 652-664: getExpenseAnalytics resolves
FetchAnalyticsResolved ==
    /\ isLoading
    /\ \E fetchedAnalytics \in Responses : analytics' = fetchedAnalytics
    /\ isLoading' = FALSE
    /\ UNCHANGED <<message, selectedTimeframe, locale>>
    /\ UNCHANGED outsideAnalytics

\* fetchAnalytics, lines 657-663: getExpenseAnalytics rejects
FetchAnalyticsRejected ==
    /\ isLoading
    /\ message' = "Failed to load analytics"
    /\ isLoading' = FALSE
    /\ UNCHANGED <<analytics, selectedTimeframe, locale>>
    /\ UNCHANGED outsideAnalytics

\* setTimeout(() => setMessage(null), 3000), line 660
MessageTimeout ==
    /\ message # NoMessage
    /\ message' = NoMessage
    /\ UNCHANGED <<analytics, selectedTimeframe, isLoading, locale>>
    /\ UNCHANGED outsideAnalytics

\* a timeframe change that also drops the fetched records
SetSelectedTimeframeAndReset ==
    /\ \E value \in Timeframes :
          /\ value # selectedTimeframe
          /\ selectedTimeframe' = value
    /\ analytics' = <<>>
    /\ UNCHANGED <<message, isLoading, locale>>
    /\ UNCHANGED outsideAnalytics

\* the onChange of the timeframe <select>, lines 818-822
SetSelectedTimeframe ==
    /\ \E value \in Timeframes :
          /\ value # selectedTimeframe
          /\ selectedTimeframe' = value
    /\ UNCHANGED <<analytics, message, isLoading, locale>>
    /\ UNCHANGED outsideAnalytics

Next ==
    \/ FetchAnalyticsResolved
    \/ FetchAnalyticsRejected
    \/ MessageTimeout
    \/ SetSelectedTimeframe

Spec == Init /\ [][Next]_vars

-----------------------------------------------------------------------------
(* Two runs of the derived-data computation, lines 670-728, with their steps *)
(* interleaved.  Every value the computation writes is a local of the run:   *)
(* the accumulator is the fresh {} handed to reduce (line 689), the series   *)
(* is the fresh array of Object.values, the window the fresh array of slice. *)

\* the records a run is given
PairRecords ==
    { [year |-> 2024, month |-> 2, category |-> "Rental", totalAmount |-> 1],
      [year |-> 2024, month |-> 1, category |-> "Rental", totalAmount |-> 1],
      [year |-> 2024, month |-> 1, category |-> "Travel", totalAmount |-> 2] }

PairInputs == SeqsUpTo(PairRecords, MaxRecords)

\* the accumulator a run starts from if all runs wrote into one object
InitialAccumulatorShared(inv, all) == all[3 - inv].acc

\* the initial value of reduce: {} as Record<string, ChartDataItem>, line 689
InitialAccumulator(inv, all) == <<>>

InProgress(run) == run.pc \notin {"start", "done"}

AnalyticsIdle ==
    /\ analytics = <<>>
    /\ message = NoMessage
    /\ selectedTimeframe = "last6Months"
    /\ isLoading = TRUE
    /\ locale = "en-US"

InitPair ==
    /\ AnalyticsIdle
    /\ FormIdle
    /\ ListIdle
    /\ \E first \in PairInputs, second \in PairInputs :
          /\ first # second
          /\ invocations = [inv \in Invocations |->
                               NotStarted(IF inv = 1 THEN first ELSE second,
                                          IF inv = 1 THEN "all" ELSE "last3Months")]

\* analytics.reduce(..., {}) is entered, lines 670 and 689
BeginReduce(inv) ==
    /\ invocations[inv].pc = "start"
    /\ invocations' =
          [invocations EXCEPT
              ![inv].pc = "reduce",
              ![inv].acc = InitialAccumulator(inv, invocations),
              ![inv].overlapped = InProgress(invocations[3 - inv])]
    /\ UNCHANGED outsidePair

\* one call of the reducer, lines 671-688
ReduceStep(inv) ==
    LET run == invocations[inv]
    IN /\ run.pc = "reduce"
       /\ run.index <= Len(run.analytics)
       /\ invocations' =
             [invocations EXCEPT
                 ![inv].acc = GroupStep(run.acc, run.analytics[run.index], locale),
                 ![inv].index = run.index + 1]
       /\ UNCHANGED outsidePair

\* Object.values(groupedAnalytics).sort(...), lines 692-694
SortStep(inv) ==
    LET run == invocations[inv]
    IN /\ run.pc = "reduce"
       /\ run.index > Len(run.analytics)
       /\ invocations' =
             [invocations EXCEPT
                 ![inv].pc = "filter",
                 ![inv].sortedChartData = SortByMonth(run.acc)]
       /\ UNCHANGED outsidePair

\* the switch on selectedTimeframe, lines 697-707
FilterStep(inv) ==
    LET run == invocations[inv]
    IN /\ run.pc = "filter"
       /\ invocations' =
             [invocations EXCEPT
                 ![inv].pc = "total",
                 ![inv].filteredChartData =
                     FilterByTimeframe(run.sortedChartData, run.selectedTimeframe)]
       /\ UNCHANGED outsidePair

\* filteredChartData.reduce(...), lines 710-718
TotalStep(inv) ==
    LET run == invocations[inv]
    IN /\ run.pc = "total"
       /\ invocations' =
             [invocations EXCEPT
                 ![inv].pc = "rank",
                 ![inv].totalExpenses = SumMonths(run.filteredChartData)]
       /\ UNCHANGED outsidePair

\* Object.keys(CATEGORY_COLORS).map(...).sort(...), lines 721-728
RankStep(inv) ==
    LET run == invocations[inv]
    IN /\ run.pc = "rank"
       /\ invocations' =
             [invocations EXCEPT
                 ![inv].pc = "done",
                 ![inv].categoryTotals =
                     SortByTotal(MapCategoryTotals(run.filteredChartData))]
       /\ UNCHANGED outsidePair

NextPair ==
    \/ \E inv \in Invocations : BeginReduce(inv)
    \/ \E inv \in Invocations : ReduceStep(inv)
    \/ \E inv \in Invocations : SortStep(inv)
    \/ \E inv \in Invocations : FilterStep(inv)
    \/ \E inv \in Invocations : TotalStep(inv)
    \/ \E inv \in Invocations : RankStep(inv)

SpecPair == InitPair /\ [][NextPair]_vars

-----------------------------------------------------------------------------
(* The expense form: its handlers, lines 113-218 and 222-298 *)

\* what may be typed or pasted into the amount field
AmountInputs ==
    { <<>>, <<".">>, <<"0">>, <<"5">>, <<"1", ".", "5">>,
      <<"1", "0", "0", "0", "0", "0">>, <<"1", "0", "0", "0", "0", "1">>,
      <<"-", "5">> }

\* the options picked in the two <select>s, besides the initial ones
CategoryInputs == {"Education"}

PaymentModeInputs == {"Cash"}

\* lengths of the notes typed
NotesInputs == {500, 501}

\* values of the date <input>: cleared, or the day after the current UTC day
DateInputs == {<<>>, <<1>>}

InitForm ==
    /\ expense = EmptyExpense
    /\ touched = {}
    /\ errors = [key \in ErrorKeys |-> NoError]
    /\ formMessage = NoMessage
    /\ isSubmitting = FALSE
    /\ createExpenseCalls = {}
    /\ clock \in Clocks
    /\ edits = 0
    /\ lastEvent = Event("mount", "form", <<>>)
    /\ AnalyticsIdle
    /\ PairIdle
    /\ ListIdle

\* the change handler without the cap at MAX_AMOUNT
HandleAmountChangeUncapped ==
    /\ edits < MaxEdits
    /\ \E value \in AmountInputs :
          /\ IF value = <<>> \/ MatchesAmountPattern(value)
             THEN /\ expense' = [expense EXCEPT !.amount = value]
                  /\ errors' =
                        IF /\ value # <<>>
                           /\ GreaterThan(ToNumber(value), 0)
                           /\ AtMost(ToNumber(value), MAX_AMOUNT)
                        THEN [errors EXCEPT !["amount"] = NoError]
                        ELSE errors
             ELSE UNCHANGED <<expense, errors>>
          /\ lastEvent' = Event("change", "amount", <<value>>)
    /\ edits' = edits + 1
    /\ UNCHANGED <<touched, formMessage, isSubmitting, createExpenseCalls, clock>>
    /\ UNCHANGED outsideForm

\* handleAmountChange, lines 140-166
HandleAmountChange ==
    /\ edits < MaxEdits
    /\ \E value \in AmountInputs :
          /\ IF value = <<>> \/ MatchesAmountPattern(value)
             THEN IF value # <<>> /\ GreaterThan(ToNumber(value), MAX_AMOUNT)
                  THEN /\ expense' = [expense EXCEPT !.amount = NumberToString(MAX_AMOUNT)]
                       /\ errors' = [errors EXCEPT !["amount"] = AmountTooLarge]
                  ELSE /\ expense' = [expense EXCEPT !.amount = value]
                       /\ errors' =
                             IF /\ value # <<>>
                                /\ GreaterThan(ToNumber(value), 0)
                                /\ AtMost(ToNumber(value), MAX_AMOUNT)
                             THEN [errors EXCEPT !["amount"] = NoError]
                             ELSE errors
             ELSE UNCHANGED <<expense, errors>>
          /\ lastEvent' = Event("change", "amount", <<value>>)
    /\ edits' = edits + 1
    /\ UNCHANGED <<touched, formMessage, isSubmitting, createExpenseCalls, clock>>
    /\ UNCHANGED outsideForm

\* the onChange of the category <select>, lines 236-244
CategoryChange ==
    /\ edits < MaxEdits
    /\ \E value \in CategoryInputs \cup {EmptyExpense.category} :
          expense' = [expense EXCEPT !.category = value]
    /\ errors' = [errors EXCEPT !["category"] = NoError]
    /\ edits' = edits + 1
    /\ lastEvent' = Event("change", "category", <<>>)
    /\ UNCHANGED <<touched, formMessage, isSubmitting, createExpenseCalls, clock>>
    /\ UNCHANGED outsideForm

\* the onChange of the notes <input>, lines 253-260
NotesChange ==
    /\ edits < MaxEdits
    /\ \E value \in NotesInputs \cup {EmptyExpense.notes} :
          /\ expense' = [expense EXCEPT !.notes = value]
          /\ errors' = IF value <= 500 THEN [errors EXCEPT !["notes"] = NoError] ELSE errors
    /\ edits' = edits + 1
    /\ lastEvent' = Event("change", "notes", <<>>)
    /\ UNCHANGED <<touched, formMessage, isSubmitting, createExpenseCalls, clock>>
    /\ UNCHANGED outsideForm

\* the onChange of the date <input>, lines 270-275
DateChange ==
    /\ edits < MaxEdits
    /\ \E value \in DateInputs \cup {EmptyExpense.date} :
          expense' = [expense EXCEPT !.date = value]
    /\ errors' = [errors EXCEPT !["date"] = NoError]
    /\ edits' = edits + 1
    /\ lastEvent' = Event("change", "date", <<>>)
    /\ UNCHANGED <<touched, formMessage, isSubmitting, createExpenseCalls, clock>>
    /\ UNCHANGED outsideForm

\* the onChange of the payment mode <select>, lines 286-294
PaymentModeChange ==
    /\ edits < MaxEdits
    /\ \E value \in PaymentModeInputs \cup {EmptyExpense.paymentMode} :
          expense' = [expense EXCEPT !.paymentMode = value]
    /\ errors' = [errors EXCEPT !["paymentMode"] = NoError]
    /\ edits' = edits + 1
    /\ lastEvent' = Event("change", "paymentMode", <<>>)
    /\ UNCHANGED <<touched, formMessage, isSubmitting, createExpenseCalls, clock>>
    /\ UNCHANGED outsideForm

\* handleBlur, lines 130-138, called from the onBlur of a field with the name
\* made of the field's label; expense[fieldName] is undefined for "payment"
HandleBlur ==
    /\ edits < MaxEdits
    /\ \E field \in DOMAIN BlurNameOf :
          LET fieldName == BlurNameOf[field]
          IN /\ touched' = touched \cup {fieldName}
             /\ errors' =
                   [errors EXCEPT ![fieldName] =
                       IF fieldName \in DOMAIN expense
                       THEN validateField(fieldName, expense[fieldName], clock)
                       ELSE validateField(fieldName, <<>>, clock)]
             /\ lastEvent' = Event("blur", field, <<>>)
    /\ edits' = edits + 1
    /\ UNCHANGED <<expense, formMessage, isSubmitting, createExpenseCalls, clock>>
    /\ UNCHANGED outsideForm

\* the errors validateForm finds, lines 114-125
FormErrors(form, now) ==
    [key \in ErrorKeys |->
        IF key \in DOMAIN form THEN validateField(key, form[key], now) ELSE NoError]

\* validateForm, lines 113-128: its return value
validateForm(form, now) == \A key \in ErrorKeys : FormErrors(form, now)[key] = NoError

\* expenseToSubmit, lines 188-191
ExpenseToSubmit(form) == [form EXCEPT !.amount = ToNumber(form.amount)]

\* a submit that is also possible while isSubmitting
HandleSubmitNotDisabled ==
    /\ touched' = { ExpenseKeys[i] : i \in 1..Len(ExpenseKeys) }
    /\ errors' = FormErrors(expense, clock)
    /\ IF validateForm(expense, clock)
       THEN /\ isSubmitting' = TRUE
            /\ createExpenseCalls' = createExpenseCalls \cup {ExpenseToSubmit(expense)}
            /\ UNCHANGED formMessage
       ELSE /\ formMessage' = "Please fix the errors in the form"
            /\ UNCHANGED <<isSubmitting, createExpenseCalls>>
    /\ lastEvent' = Event("submit", "form", <<>>)
    /\ UNCHANGED <<expense, clock, edits>>
    /\ UNCHANGED outsideForm

\* handleSubmit up to its await, lines 168-193; the submit button is disabled
\* while isSubmitting
HandleSubmit ==
    /\ ~isSubmitting
    /\ touched' = { ExpenseKeys[i] : i \in 1..Len(ExpenseKeys) }
    /\ errors' = FormErrors(expense, clock)
    /\ IF validateForm(expense, clock)
       THEN /\ isSubmitting' = TRUE
            /\ createExpenseCalls' = createExpenseCalls \cup {ExpenseToSubmit(expense)}
            /\ UNCHANGED formMessage
       ELSE /\ formMessage' = "Please fix the errors in the form"
            /\ UNCHANGED <<isSubmitting, createExpenseCalls>>
    /\ lastEvent' = Event("submit", "form", <<>>)
    /\ UNCHANGED <<expense, clock, edits>>
    /\ UNCHANGED outsideForm

\* handleSubmit after createExpense resolved, lines 195-211 and 216-218
CreateExpenseResolved ==
    /\ \E call \in createExpenseCalls : createExpenseCalls' = createExpenseCalls \ {call}
    /\ expense' = EmptyExpense
    /\ touched' = {}
    /\ errors' = [key \in ErrorKeys |-> NoError]
    /\ formMessage' = "Expense added successfully!"
    /\ isSubmitting' = FALSE
    /\ edits' = 0
    /\ lastEvent' = Event("resolved", "createExpense", <<>>)
    /\ UNCHANGED clock
    /\ UNCHANGED outsideForm

\* a catch branch that also resets the form
CreateExpenseRejectedAndReset ==
    /\ \E call \in createExpenseCalls : createExpenseCalls' = createExpenseCalls \ {call}
    /\ expense' = EmptyExpense
    /\ formMessage' = "Failed to add expense. Please try again."
    /\ isSubmitting' = FALSE
    /\ lastEvent' = Event("rejected", "createExpense", <<>>)
    /\ UNCHANGED <<touched, errors, clock, edits>>
    /\ UNCHANGED outsideForm

\* handleSubmit after createExpense rejected, lines 212-218
CreateExpenseRejected ==
    /\ \E call \in createExpenseCalls : createExpenseCalls' = createExpenseCalls \ {call}
    /\ formMessage' = "Failed to add expense. Please try again."
    /\ isSubmitting' = FALSE
    /\ lastEvent' = Event("rejected", "createExpense", <<>>)
    /\ UNCHANGED <<expense, touched, errors, clock, edits>>
    /\ UNCHANGED outsideForm

\* setTimeout(() => setMessage(null), 3000), lines 180, 210 and 214
FormMessageTimeout ==
    /\ formMessage # NoMessage
    /\ formMessage' = NoMessage
    /\ lastEvent' = Event("timeout", "message", <<>>)
    /\ UNCHANGED <<expense, touched, errors, isSubmitting, createExpenseCalls, clock, edits>>
    /\ UNCHANGED outsideForm

NextForm ==
    \/ HandleAmountChange
    \/ CategoryChange
    \/ NotesChange
    \/ DateChange
    \/ PaymentModeChange
    \/ HandleBlur
    \/ HandleSubmit
    \/ CreateExpenseResolved
    \/ CreateExpenseRejected
    \/ FormMessageTimeout

SpecForm == InitForm /\ [][NextForm]_vars

\* the form with createExpense calls that settle: the axios instance has a
\* timeout of 15000 ms, after which a call without a response is rejected
SpecFormFair ==
    /\ SpecForm
    /\ WF_vars(CreateExpenseResolved)
    /\ WF_vars(CreateExpenseRejected)

-----------------------------------------------------------------------------
(* The expenses list: its effects and handlers, lines 56-127 *)

\* the values picked in the date range <select>, lines 233-236
DateRangeInputs == {NoDateRange, "Last 30 Days"}

\* the category and payment mode buttons that are clicked, lines 269 and 302
ToggledCategories == {"Rental"}

ToggledPaymentModes == {"Cash"}

\* what is typed into the search box, line 178
SearchInputs == {<<>>, <<"r", "e">>, <<"R", "e", "n">>}

\* the closure of fetchExpenses in the current render
CurrentClosure ==
    Closure(selectedDateRange, selectedCategories, selectedPaymentModes, searchTerm)

InitList ==
    /\ expenses = <<>>
    /\ selectedDateRange = NoDateRange
    /\ selectedCategories = <<>>
    /\ selectedPaymentModes = <<>>
    /\ listMessage = NoMessage
    /\ listIsLoading = TRUE
    /\ searchTerm = <<>>
    /\ timers = {NewTimer(Closure(NoDateRange, <<>>, <<>>, <<>>))}
    /\ getExpensesCalls =
          <<NewGetExpensesCall(Closure(NoDateRange, <<>>, <<>>, <<>>), "filters", 0)>>
    /\ deleteExpenseCalls = {}
    /\ store = ExpenseIds
    /\ deletedIds = {}
    /\ burst = 0
    /\ changes = 0
    /\ AnalyticsIdle
    /\ PairIdle
    /\ FormIdle

\* prev.includes(x) ? prev.filter((c) => c !== x) : [...prev, x], lines 103-107
Toggle(prev, value) ==
    IF Includes(prev, value)
    THEN SelectSeq(prev, LAMBDA c : c # value)
    ELSE Append(prev, value)

RemoveAt(list, i) == SubSeq(list, 1, i - 1) \o SubSeq(list, i + 1, Len(list))

\* fetchExpenses up to its await, lines 56-63, run by the effect on the filters,
\* lines 89-91, with the closure of the render the change has led to
FetchAfterFilterChange(dateRange, categories, paymentModes) ==
    /\ listIsLoading' = TRUE
    /\ getExpensesCalls' =
          Append(getExpensesCalls,
                 NewGetExpensesCall(Closure(dateRange, categories, paymentModes, searchTerm),
                                    "filters", 0))

\* setSelectedDateRange(e.target.value || undefined), line 235, and the effect
SetSelectedDateRange ==
    /\ changes < MaxChanges
    /\ \E value \in DateRangeInputs :
          /\ value # selectedDateRange
          /\ selectedDateRange' = value
          /\ FetchAfterFilterChange(value, selectedCategories, selectedPaymentModes)
    /\ changes' = changes + 1
    /\ UNCHANGED <<expenses, selectedCategories, selectedPaymentModes, listMessage,
                   searchTerm, timers, deleteExpenseCalls, store, deletedIds, burst>>
    /\ UNCHANGED outsideList

\* toggleCategory, lines 102-108, and the effect
ToggleCategory ==
    /\ changes < MaxChanges
    /\ \E category \in ToggledCategories :
          /\ selectedCategories' = Toggle(selectedCategories, category)
          /\ FetchAfterFilterChange(selectedDateRange, Toggle(selectedCategories, category),
                                    selectedPaymentModes)
    /\ changes' = changes + 1
    /\ UNCHANGED <<expenses, selectedDateRange, selectedPaymentModes, listMessage,
                   searchTerm, timers, deleteExpenseCalls, store, deletedIds, burst>>
    /\ UNCHANGED outsideList

\* togglePaymentMode, lines 110-114, and the effect
TogglePaymentMode ==
    /\ changes < MaxChanges
    /\ \E mode \in ToggledPaymentModes :
          /\ selectedPaymentModes' = Toggle(selectedPaymentModes, mode)
          /\ FetchAfterFilterChange(selectedDateRange, selectedCategories,
                                    Toggle(selectedPaymentModes, mode))
    /\ changes' = changes + 1
    /\ UNCHANGED <<expenses, selectedDateRange, selectedCategories, listMessage,
                   searchTerm, timers, deleteExpenseCalls, store, deletedIds, burst>>
    /\ UNCHANGED outsideList

\* a cleanup that leaves the pending timer running
ClearTimeoutKeeps(pending) == pending

\* return () => clearTimeout(timer), line 99: the timers left after the cleanup
ClearTimeout(pending) == {}

\* setSearchTerm(e.target.value), line 178, and the effect on searchTerm, lines
\* 94-100: the cleanup of the previous effect, then a new timer
SetSearchTerm ==
    /\ changes < MaxChanges
    /\ \E value \in SearchInputs :
          /\ value # searchTerm
          /\ searchTerm' = value
          /\ timers' =
                ClearTimeout(timers)
                   \cup {NewTimer(Closure(selectedDateRange, selectedCategories,
                                          selectedPaymentModes, value))}
    /\ burst' = burst + 1
    /\ changes' = changes + 1
    /\ UNCHANGED <<expenses, selectedDateRange, selectedCategories, selectedPaymentModes,
                   listMessage, listIsLoading, getExpensesCalls, deleteExpenseCalls, store,
                   deletedIds>>
    /\ UNCHANGED outsideList

\* half the debounce delay passes with no pending timer due
Tick ==
    /\ timers # {}
    /\ \A timer \in timers : timer.elapsed < DebounceMs
    /\ timers' = { [timer EXCEPT !.elapsed = timer.elapsed + (DebounceMs \div 2)] :
                     timer \in timers }
    /\ UNCHANGED <<expenses, selectedDateRange, selectedCategories, selectedPaymentModes,
                   listMessage, listIsLoading, searchTerm, getExpensesCalls,
                   deleteExpenseCalls, store, deletedIds, burst, changes>>
    /\ UNCHANGED outsideList

\* the debounce timer fires, lines 95-97: fetchExpenses of the render that set
\* the timer, up to its await
TimerFires ==
    /\ \E timer \in timers :
          /\ timer.elapsed = DebounceMs
          /\ timers' = timers \ {timer}
          /\ getExpensesCalls' =
                Append(getExpensesCalls, NewGetExpensesCall(timer.closure, "search", burst))
    /\ listIsLoading' = TRUE
    /\ burst' = 0
    /\ UNCHANGED <<expenses, selectedDateRange, selectedCategories, selectedPaymentModes,
                   listMessage, searchTerm, deleteExpenseCalls, store, deletedIds, changes>>
    /\ UNCHANGED outsideList

\* the server answers a getExpenses call from what it holds at that moment
ServerAnswersGetExpenses ==
    /\ \E i \in 1..Len(getExpensesCalls) :
          /\ getExpensesCalls[i].phase = "sent"
          /\ getExpensesCalls' =
                [getExpensesCalls EXCEPT
                    ![i].phase = "answered",
                    ![i].response = QueryExpenses(store, getExpensesCalls[i].closure)]
    /\ UNCHANGED <<expenses, selectedDateRange, selectedCategories, selectedPaymentModes,
                   listMessage, listIsLoading, searchTerm, timers, deleteExpenseCalls,
                   store, deletedIds, burst, changes>>
    /\ UNCHANGED outsideList

\* fetchExpenses after getExpenses resolved, lines 65-78 and 83-85
GetExpensesResolved ==
    /\ \E i \in 1..Len(getExpensesCalls) :
          /\ getExpensesCalls[i].phase = "answered"
          /\ expenses' = FilterBySearch(getExpensesCalls[i].response,
                                        getExpensesCalls[i].closure.searchTerm)
          /\ getExpensesCalls' = RemoveAt(getExpensesCalls, i)
    /\ listIsLoading' = FALSE
    /\ UNCHANGED <<selectedDateRange, selectedCategories, selectedPaymentModes, listMessage,
                   searchTerm, timers, deleteExpenseCalls, store, deletedIds, burst, changes>>
    /\ UNCHANGED outsideList

\* fetchExpenses after getExpenses rejected, lines 79-85
GetExpensesRejected ==
    /\ \E i \in 1..Len(getExpensesCalls) :
          getExpensesCalls' = RemoveAt(getExpensesCalls, i)
    /\ listMessage' = "Failed to load expenses"
    /\ listIsLoading' = FALSE
    /\ UNCHANGED <<expenses, selectedDateRange, selectedCategories, selectedPaymentModes,
                   searchTerm, timers, deleteExpenseCalls, store, deletedIds, burst, changes>>
    /\ UNCHANGED outsideList

\* handleDeleteExpense up to its await, lines 116-118, from the button of a
\* displayed expense, line 424
HandleDeleteExpense ==
    /\ changes < MaxChanges
    /\ \E i \in 1..Len(expenses) :
          /\ \A call \in deleteExpenseCalls : call.id # expenses[i]._id
          /\ deleteExpenseCalls' =
                deleteExpenseCalls \cup {[id |-> expenses[i]._id, phase |-> "sent"]}
    /\ changes' = changes + 1
    /\ UNCHANGED <<expenses, selectedDateRange, selectedCategories, selectedPaymentModes,
                   listMessage, listIsLoading, searchTerm, timers, getExpensesCalls, store,
                   deletedIds, burst>>
    /\ UNCHANGED outsideList

\* the server carries out DELETE /:id
ServerDeletesExpense ==
    /\ \E call \in deleteExpenseCalls :
          /\ call.phase = "sent"
          /\ store' = store \ {call.id}
          /\ deleteExpenseCalls' =
                (deleteExpenseCalls \ {call}) \cup {[call EXCEPT !.phase = "answered"]}
    /\ UNCHANGED <<expenses, selectedDateRange, selectedCategories, selectedPaymentModes,
                   listMessage, listIsLoading, searchTerm, timers, getExpensesCalls,
                   deletedIds, burst, changes>>
    /\ UNCHANGED outsideList

\* handleDeleteExpense after deleteExpense resolved, lines 119-121
DeleteExpenseResolved ==
    /\ \E call \in deleteExpenseCalls :
          /\ call.phase = "answered"
          /\ expenses' = SelectSeq(expenses, LAMBDA item : item._id # call.id)
          /\ deletedIds' = deletedIds \cup {call.id}
          /\ deleteExpenseCalls' = deleteExpenseCalls \ {call}
    /\ listMessage' = "Expense deleted successfully"
    /\ UNCHANGED <<selectedDateRange, selectedCategories, selectedPaymentModes,
                   listIsLoading, searchTerm, timers, getExpensesCalls, store, burst, changes>>
    /\ UNCHANGED outsideList

\* handleDeleteExpense after deleteExpense rejected, lines 122-126
DeleteExpenseRejected ==
    /\ \E call \in deleteExpenseCalls : deleteExpenseCalls' = deleteExpenseCalls \ {call}
    /\ listMessage' = "Failed to delete expense"
    /\ UNCHANGED <<expenses, selectedDateRange, selectedCategories, selectedPaymentModes,
                   listIsLoading, searchTerm, timers, getExpensesCalls, store, deletedIds,
                   burst, changes>>
    /\ UNCHANGED outsideList

\* setTimeout(() => setMessage(null), 3000), lines 83, 121 and 125
ListMessageTimeout ==
    /\ listMessage # NoMessage
    /\ listMessage' = NoMessage
    /\ UNCHANGED <<expenses, selectedDateRange, selectedCategories, selectedPaymentModes,
                   listIsLoading, searchTerm, timers, getExpensesCalls, deleteExpenseCalls,
                   store, deletedIds, burst, changes>>
    /\ UNCHANGED outsideList

NextList ==
    \/ SetSelectedDateRange
    \/ ToggleCategory
    \/ TogglePaymentMode
    \/ SetSearchTerm
    \/ Tick
    \/ TimerFires
    \/ ServerAnswersGetExpenses
    \/ GetExpensesResolved
    \/ GetExpensesRejected
    \/ HandleDeleteExpense
    \/ ServerDeletesExpense
    \/ DeleteExpenseResolved
    \/ DeleteExpenseRejected
    \/ ListMessageTimeout

SpecList == InitList /\ [][NextList]_vars

-----------------------------------------------------------------------------
(* Reference quantities, computed from the fetched records directly *)

RECURSIVE SumOfRecords(_)
SumOfRecords(indices) ==
    IF indices = {} THEN 0
    ELSE LET j == CHOOSE j \in indices : TRUE
         IN analytics[j].totalAmount + SumOfRecords(indices \ {j})

RecordsOf(year, month, category) ==
    { j \in 1..Len(analytics) :
        /\ analytics[j].year = year
        /\ analytics[j].month = month
        /\ analytics[j].category = category }

InputPairs == { <<analytics[j].year, analytics[j].month>> : j \in 1..Len(analytics) }

WindowPairs ==
    LET window == filteredChartData
    IN { <<window[i].year, window[i].monthNum>> : i \in 1..Len(window) }

RecordsInWindow(pairs, category) ==
    { j \in 1..Len(analytics) :
        /\ <<analytics[j].year, analytics[j].month>> \in pairs
        /\ analytics[j].category = category }

Min(a, b) == IF a < b THEN a ELSE b

\* every fetched record satisfies the input constraints of a RawAggregate
RecordsAreValid ==
    \A j \in 1..Len(analytics) :
        /\ analytics[j].month \in 1..12
        /\ analytics[j].totalAmount >= 0

-----------------------------------------------------------------------------
\* C1: after grouping, each bucket's amount for a category equals the sum of
\* totalAmount over all input records with that bucket's (year, month) and that
\* category: records sharing (year, month, category) are summed, never overwritten.
GroupingCorrect ==
    LET buckets == groupedAnalytics
    IN \A i \in 1..Len(buckets) :
          \A c \in DOMAIN buckets[i].totals :
              buckets[i].totals[c] =
                  SumOfRecords(RecordsOf(buckets[i].year, buckets[i].monthNum, c))

\* two records share (year, month, category), both with a positive amount, and
\* their bucket has been built
GroupingWitness ==
    /\ ~isLoading
    /\ \E j, k \in 1..Len(analytics) :
          /\ j < k
          /\ analytics[j].totalAmount > 0
          /\ analytics[k].totalAmount > 0
          /\ analytics[j].category = analytics[k].category
          /\ GroupKey(analytics[j]) = GroupKey(analytics[k])
          /\ LET buckets == groupedAnalytics
             IN \E i \in 1..Len(buckets) :
                   /\ buckets[i].key = GroupKey(analytics[j])
                   /\ analytics[j].category \in DOMAIN buckets[i].totals

\* C2: the aggregated series is strictly ascending by (year, month),
\* lexicographic on year then month, for every adjacent pair, and holds exactly
\* one bucket per distinct (year, month) pair of the input.
ChronologicalOrder ==
    LET series == sortedChartData
    IN /\ \A i \in 1..(Len(series) - 1) :
             \/ series[i].year < series[i + 1].year
             \/ /\ series[i].year = series[i + 1].year
                /\ series[i].monthNum < series[i + 1].monthNum
       /\ \A pair \in InputPairs :
             Cardinality({ i \in 1..Len(series) :
                             <<series[i].year, series[i].monthNum>> = pair }) = 1
       /\ Len(series) = Cardinality(InputPairs)

\* C3: with the all-time timeframe the windowed series is the full series; with
\* last-3 or last-6 it is exactly the trailing min(n, length) buckets of the
\* series, in the same order, selected by position and never padded.
WindowIsSuffix ==
    LET series == sortedChartData
        window == filteredChartData
        n == CASE selectedTimeframe = "last3Months" -> 3
               [] selectedTimeframe = "last6Months" -> 6
               [] OTHER -> Len(series)
        offset == Len(series) - Len(window)
    IN /\ selectedTimeframe = "all" => window = series
       /\ Len(window) = Min(n, Len(series))
       /\ \A i \in 1..Len(window) : window[i] = series[offset + i]

\* a series of more than six buckets is cut to its last six
WindowWitness ==
    /\ ~isLoading
    /\ selectedTimeframe = "last6Months"
    /\ LET series == sortedChartData
           window == filteredChartData
       IN /\ Len(series) > 6
          /\ Len(window) = 6
          /\ window[1] = series[Len(series) - 5]

\* C4: for every window whose grand total is 0, every category's share of total
\* is defined and equal to 0: no NaN or division-by-zero result is displayed
\* (stated for the shares the component displays, on valid records).
ZeroTotalSharesAreZero ==
    (RecordsAreValid /\ chartsShown /\ totalExpenses = 0) =>
        LET shares == shownPercentages
        IN \A i \in 1..Len(shares) : shares[i] = [kind |-> "number", tenths |-> 0]

\* C5: the reported top category is the first entry of the rankings if and only
\* if that entry's total is strictly greater than 0; when all known-category
\* totals are 0 the reported top category is none, never a category name
\* (stated for the card the component displays, on valid records).
TopCategoryOnlyWhenPositive ==
    (RecordsAreValid /\ summaryShown) =>
        LET rankings == categoryTotals
        IN highestCategoryCard.value =
              IF rankings[1].total > 0 THEN rankings[1].category ELSE "None"

\* the names of the known categories in lexical order
LexicalOrder == <<"Entertainment", "Groceries", "Others", "Rental", "Travel">>

LexicalPosition(c) == CHOOSE i \in 1..Len(LexicalOrder) : LexicalOrder[i] = c

\* C6: the rankings contain exactly one entry per known category, including
\* categories with no record in the window (total 0); each entry's total is the
\* sum of that category's amounts over the windowed buckets; the entries are
\* sorted by total descending, and entries with equal totals appear in the order
\* of their position in the known-category list.
RankingsCorrect ==
    LET rankings == categoryTotals
        pairs == WindowPairs
    IN /\ Len(rankings) = Len(KnownCategories)
       /\ \A k \in 1..Len(KnownCategories) :
             Cardinality({ i \in 1..Len(rankings) :
                             rankings[i].category = KnownCategories[k] }) = 1
       /\ \A i \in 1..Len(rankings) :
             rankings[i].total = SumOfRecords(RecordsInWindow(pairs, rankings[i].category))
       /\ \A i \in 1..(Len(rankings) - 1) :
             \/ rankings[i].total > rankings[i + 1].total
             \/ /\ rankings[i].total = rankings[i + 1].total
                /\ CategoryPosition(rankings[i].category)
                      < CategoryPosition(rankings[i + 1].category)

\* the sort has moved a later category in front of an earlier one, a category
\* without records is ranked with total 0, and two categories tie
RankingsWitness ==
    /\ chartsShown
    /\ LET rankings == categoryTotals
       IN /\ rankings[1].category = "Travel"
          /\ rankings[1].total > rankings[2].total
          /\ rankings[2].total = rankings[3].total
          /\ rankings[2].total > 0
          /\ \E i \in 1..Len(rankings) :
                /\ rankings[i].category = "Entertainment"
                /\ rankings[i].total = 0

\* C7 as stated: among ranking entries with equal totals, the entries are
\* ordered by category-name lexical order.
TiesInLexicalOrder ==
    chartsShown =>
        LET rankings == categoryTotals
        IN \A i, j \in 1..Len(rankings) :
              (i < j /\ rankings[i].total = rankings[j].total) =>
                  LexicalPosition(rankings[i].category)
                      < LexicalPosition(rankings[j].category)

\* C7 as amended: among ranking entries with equal totals, the entries keep the
\* order of the known-category list (Rental, Groceries, Entertainment, Travel,
\* Others).
TiesInKnownCategoryOrder ==
    LET rankings == categoryTotals
    IN \A i, j \in 1..Len(rankings) :
          (i < j /\ rankings[i].total = rankings[j].total) =>
              CategoryPosition(rankings[i].category)
                  < CategoryPosition(rankings[j].category)

\* Rental and Groceries tie with a positive total behind a larger Travel total:
\* Rental stays in front of Groceries, against the lexical order
TiesWitness ==
    /\ chartsShown
    /\ LET rankings == categoryTotals
       IN \E i \in 1..(Len(rankings) - 1) :
             /\ i > 1
             /\ rankings[i].category = "Rental"
             /\ rankings[i + 1].category = "Groceries"
             /\ rankings[i].total = rankings[i + 1].total
             /\ rankings[i].total > 0

RECURSIVE SumOfTotals(_)
SumOfTotals(entries) ==
    IF entries = <<>> THEN 0 ELSE Head(entries).total + SumOfTotals(Tail(entries))

RejectsNegativeAmount ==
    (~isLoading /\ \E j \in 1..Len(analytics) : analytics[j].totalAmount < 0) =>
        /\ sortedChartData = <<>>
        /\ message # NoMessage

\* C11: aggregation rejects a record whose month is not a valid calendar month
\* (outside 1..12): it fails with an invalid-input error, and such a record
\* never creates a bucket, never gets a label of another month, and never takes
\* a position in the ordered series.
RejectsInvalidMonth ==
    ~isLoading =>
        LET series == sortedChartData
        IN /\ \A i \in 1..Len(series) : series[i].monthNum \in 1..12
           /\ (\E j \in 1..Len(analytics) : analytics[j].month \notin 1..12) =>
                 /\ series = <<>>
                 /\ message # NoMessage

\* every category that a record or CATEGORY_COLORS can name
AllCategories == InputCategories \cup { KnownCategories[i] : i \in 1..Len(KnownCategories) }

RECURSIVE SumOverCategories(_, _)
SumOverCategories(pairs, categories) ==
    IF categories = {} THEN 0
    ELSE LET c == CHOOSE c \in categories : TRUE
         IN SumOfRecords(RecordsInWindow(pairs, c))
            + SumOverCategories(pairs, categories \ {c})

\* C12: after aggregation a bucket has an entry for a category if and only if
\* at least one input record has that bucket's (year, month) and that category:
\* no zero entry is created for an absent category, and the grand total reads an
\* absent entry as 0 (it is the sum of the known-category records of the window).
EntryIffRecord ==
    LET buckets == groupedAnalytics
        window == FilterByTimeframe(SortByMonth(buckets), selectedTimeframe)
        pairs == { <<window[i].year, window[i].monthNum>> : i \in 1..Len(window) }
    IN /\ \A i \in 1..Len(buckets) :
             /\ DOMAIN buckets[i].totals \subseteq AllCategories
             /\ \A c \in AllCategories :
                   /\ (c \in DOMAIN buckets[i].totals) <=>
                         (RecordsOf(buckets[i].year, buckets[i].monthNum, c) # {})
                   /\ (c \notin DOMAIN buckets[i].totals) => AmountOf(buckets[i], c) = 0
       /\ SumMonths(window) =
             SumOverCategories(pairs, { KnownCategories[i] : i \in 1..Len(KnownCategories) })

\* a rendered bucket holds a Rental entry and no Groceries entry, and a positive
\* grand total has been computed over it
EntryWitness ==
    /\ chartsShown
    /\ totalExpenses > 0
    /\ LET window == filteredChartData
       IN \E i \in 1..Len(window) :
             /\ "Rental" \in DOMAIN window[i].totals
             /\ window[i].totals["Rental"] > 0
             /\ "Groceries" \notin DOMAIN window[i].totals

SeqElements(items) == { items[i] : i \in 1..Len(items) }

\* the aggregation and the series as a render computes them
GroupedOf(records, loc) == GroupReduce(<<>>, records, loc)

\* the buckets are handed on unchanged and the window is a suffix of the series
HandsOnBuckets(grouped, series, window) ==
    /\ SeqElements(series) = SeqElements(grouped)
    /\ Len(series) = Len(grouped)
    /\ window = SubSeq(series, Len(series) - Len(window) + 1, Len(series))

HandsOnSeries(grouped, timeframe) ==
    LET series == SortByMonth(grouped)
    IN HandsOnBuckets(grouped, series, FilterByTimeframe(series, timeframe))

SeriesFrozenStep ==
    /\ (<<analytics', locale', selectedTimeframe'>> # <<analytics, locale, selectedTimeframe>>) =>
          HandsOnSeries(GroupedOf(analytics', locale'), selectedTimeframe')
    /\ (selectedTimeframe' # selectedTimeframe) =>
          /\ analytics' = analytics
          /\ locale' = locale

\* C13: once aggregation has finished, no later step modifies the series or its
\* buckets: sorting and windowing hand on the buckets of the aggregation
\* unchanged, and a change of the timeframe leaves the fetched records (and the
\* locale), of which the series is a function, unchanged and selects a suffix of
\* the series.
SeriesIsFrozen == [][SeriesFrozenStep]_vars

\* the timeframe has been switched to the last three of more than three buckets
FrozenWitness ==
    /\ ~isLoading
    /\ selectedTimeframe = "last3Months"
    /\ LET series == sortedChartData
       IN /\ Len(series) > 3
          /\ filteredChartData = SubSeq(series, Len(series) - 2, Len(series))

BucketLabels(buckets) == [i \in 1..Len(buckets) |-> buckets[i].label]

\* C14: a bucket's label depends only on its (year, month): aggregating the same
\* records under two different runtime locales yields identical labels for
\* every bucket.
LabelsIgnoreLocale ==
    ~isLoading =>
        \A other \in Locales :
            BucketLabels(GroupReduce(<<>>, analytics, other)) = BucketLabels(groupedAnalytics)

\* C17: the grand total of a window equals the sum of totalAmount over every
\* input record whose (year, month) is one of the windowed buckets, whatever
\* the record's category (stated on valid records).
GrandTotalCoversEveryCategory ==
    (RecordsAreValid /\ ~isLoading) =>
        LET pairs == WindowPairs
        IN totalExpenses =
              SumOfRecords({ j \in 1..Len(analytics) :
                               <<analytics[j].year, analytics[j].month>> \in pairs })

\* what a run produces when nothing else runs
RunAlone(records, timeframe, loc) ==
    LET series == SortByMonth(GroupReduce(<<>>, records, loc))
        window == FilterByTimeframe(series, timeframe)
    IN [sortedChartData   |-> series,
        filteredChartData |-> window,
        totalExpenses     |-> SumMonths(window),
        categoryTotals    |-> SortByTotal(MapCategoryTotals(window))]

\* C15: two runs of the aggregation and summary computation on different inputs,
\* with their steps interleaved in any order, each produce the series, the
\* window, the grand total and the rankings they produce when run alone, and the
\* accumulator of a run under way holds exactly the records it has consumed.
InvocationsIndependent ==
    \A inv \in Invocations :
        LET run == invocations[inv]
        IN /\ run.pc # "start" =>
                 run.acc = GroupReduce(<<>>, SubSeq(run.analytics, 1, run.index - 1), locale)
           /\ run.pc = "done" =>
                 LET alone == RunAlone(run.analytics, run.selectedTimeframe, locale)
                 IN /\ run.sortedChartData = alone.sortedChartData
                    /\ run.filteredChartData = alone.filteredChartData
                    /\ run.totalExpenses = alone.totalExpenses
                    /\ run.categoryTotals = alone.categoryTotals

\* both runs have finished, one of them began while the other was under way,
\* and they produced different, non-empty series
InvocationsWitness ==
    /\ \A inv \in Invocations : invocations[inv].pc = "done"
    /\ \E inv \in Invocations : invocations[inv].overlapped
    /\ invocations[1].analytics # invocations[2].analytics
    /\ invocations[1].sortedChartData # <<>>
    /\ invocations[2].sortedChartData # <<>>
    /\ invocations[1].sortedChartData # invocations[2].sortedChartData
    /\ invocations[1].totalExpenses # invocations[2].totalExpenses

\* the argument of a createExpense call is what the claim says a submitted
\* expense is
IsValidSubmission(call, now) ==
    /\ ~call.amount.nan
    /\ GreaterThan(call.amount, 0)
    /\ AtMost(call.amount, MAX_AMOUNT)
    /\ Includes(FormCategories, call.category)
    /\ Includes(FormPaymentModes, call.paymentMode)
    /\ call.date # <<>>
    /\ call.date[1] <= LocalDay(now)
    /\ call.notes <= 500

\* C16: createExpense is called only with an expense that validateForm accepted,
\* and in every call the amount is a finite number greater than 0 and at most
\* 100000 (for every amount text handleAmountChange lets into the field), the
\* category is one of the form's categories, the payment mode is one of the four
\* modes, the date is non-empty and not after the user's current day, and the
\* notes have at most 500 characters.
SubmittedExpenseIsValid ==
    \A call \in createExpenseCalls : IsValidSubmission(call, clock)

\* C18: in the expenses list, once no debounce timer is pending and no
\* getExpenses call is in flight, the displayed list is the server's answer to the
\* query for the selected date range, categories and payment modes, filtered by
\* the current search term.
ListShowsCurrentQuery ==
    (timers = {} /\ getExpensesCalls = <<>>) =>
        expenses = FilterBySearch(QueryExpenses(store, CurrentClosure), searchTerm)

\* the timers after a step are at most one, not older than the debounce delay
TimersAfter(pending, term) ==
    /\ Cardinality(pending) <= 1
    /\ \A timer \in pending :
          /\ timer.elapsed <= DebounceMs
          /\ timer.closure.searchTerm = term

\* a step of the search debounce, given the calls before and after it
DebounceStepOf(callsBefore, callsAfter) ==
    /\ TimersAfter(timers', searchTerm')
       \* a change of the search term cancels the pending timer, starts a new one
       \* and fetches nothing
    /\ searchTerm' # searchTerm =>
          /\ timers' = {NewTimer(Closure(selectedDateRange, selectedCategories,
                                         selectedPaymentModes, searchTerm'))}
          /\ callsAfter = callsBefore
       \* a search fetch is issued by the one timer, 500 ms after the last change,
       \* with the last search term, and leaves no timer behind
    /\ (Len(callsAfter) > Len(callsBefore) /\ callsAfter[Len(callsAfter)].trigger = "search") =>
          /\ Len(callsAfter) = Len(callsBefore) + 1
          /\ timers' = {}
          /\ \E timer \in timers :
                /\ timers = {timer}
                /\ timer.elapsed = DebounceMs
                /\ callsAfter[Len(callsAfter)].closure.searchTerm = searchTerm
                /\ callsAfter[Len(callsAfter)].coalesced = burst

DebounceStep == DebounceStepOf(getExpensesCalls, getExpensesCalls')

\* C19: every change of the search term cancels the pending debounce timer and
\* starts a new 500 ms timer, so that a burst of changes less than 500 ms apart
\* leads to exactly one search fetch, issued 500 ms after the last change and
\* using the last search term.
SearchIsDebounced == [][DebounceStep]_vars

\* a search fetch that stands for a burst of two changes of the search term
\* and carries the current one
DebounceWitness ==
    \E i \in 1..Len(getExpensesCalls) :
        /\ getExpensesCalls[i].trigger = "search"
        /\ getExpensesCalls[i].coalesced >= 2
        /\ getExpensesCalls[i].closure.searchTerm = searchTerm
        /\ searchTerm # <<>>
        /\ timers = {}

\* C20: after handleDeleteExpense(id) has succeeded the deleted expense is never
\* displayed again, also when a getExpenses call issued before the deletion
\* delivers its response after it.
DeletedExpenseStaysAway ==
    \A i \in 1..Len(expenses) : expenses[i]._id \notin deletedIds

\* the stored amount text: empty, or digits with at most one decimal point,
\* and a numeric value that does not exceed MAX_AMOUNT
AmountTextIsBounded(text) ==
    /\ text = <<>> \/ MatchesAmountPattern(text)
    /\ ~GreaterThan(ToNumber(text), MAX_AMOUNT)

\* what an edit of the amount field to the text typed has done
AmountEditStep(typed, amountBefore, amountAfter, errorsBefore, errorsAfter) ==
    IF typed # <<>> /\ ~MatchesAmountPattern(typed)
    THEN /\ amountAfter = amountBefore
         /\ errorsAfter = errorsBefore
    ELSE IF GreaterThan(ToNumber(typed), MAX_AMOUNT)
    THEN /\ amountAfter = <<"1", "0", "0", "0", "0", "0">>
         /\ errorsAfter["amount"] = AmountTooLarge
    ELSE amountAfter = typed

\* C21: after any sequence of amount edits, the stored amount text is either
\* empty or made only of digits with at most one decimal point, and its numeric
\* value never exceeds 100000: an edit to a larger value stores "100000" and
\* sets the exceed-limit error, and an edit whose text does not match the
\* pattern leaves the amount and the errors unchanged.
AmountStaysBounded ==
    [][/\ AmountTextIsBounded(expense'.amount)
       /\ (lastEvent'.type = "change" /\ lastEvent'.target = "amount") =>
             AmountEditStep(lastEvent'.value[1], expense.amount, expense'.amount,
                            errors, errors')]_vars

\* "100001" has just been typed over a smaller amount and has been capped
AmountCappedWitness ==
    /\ lastEvent = Event("change", "amount", <<<<"1", "0", "0", "0", "0", "1">>>>)
    /\ expense.amount = <<"1", "0", "0", "0", "0", "0">>
    /\ errors["amount"] = AmountTooLarge
    /\ edits >= 2

\* what the blur of the field with this key in the form data has done
BlurStep(key, touchedAfter, errorsAfter, form, now) ==
    /\ key \in touchedAfter
    /\ errorsAfter[key] = validateField(key, form[key], now)

\* C22: blurring any of the five form fields marks that field as touched and
\* stores its validation result under the same key the field has in the form
\* data (amount, category, notes, date, paymentMode), so that an invalid value
\* of that field shows its error after the blur.
BlurUsesFieldKey ==
    [][lastEvent'.type = "blur" =>
          BlurStep(lastEvent'.target, touched', errors', expense', clock')]_vars

\* the outcome of a submission, by the event that ends it: the settlement of
\* createExpense, or the submit event itself when validation has failed
SubmissionOutcomeStep(event, formBefore, formAfter, touchedAfter, errorsAfter, shown,
                      submitting) ==
    /\ event.type = "resolved" =>
          /\ formAfter = [amount |-> <<>>, category |-> "Others", notes |-> 0,
                          date |-> <<0>>, paymentMode |-> "UPI"]
          /\ touchedAfter = {}
          /\ \A key \in ErrorKeys : errorsAfter[key] = NoError
          /\ shown = "Expense added successfully!"
    /\ event.type = "rejected" =>
          /\ formAfter = formBefore
          /\ shown = "Failed to add expense. Please try again."
    /\ (event.type = "submit" /\ ~submitting) =>
          /\ formAfter = formBefore
          /\ shown = "Please fix the errors in the form"

\* C23: form submission outcome: when createExpense succeeds the form returns to
\* its initial values (amount empty, category Others, notes empty, date today,
\* payment mode UPI) with touched and errors empty and a success message; when
\* validation fails or createExpense fails, every entered field value is left
\* unchanged and a failure message is shown.
SubmissionOutcome ==
    [][SubmissionOutcomeStep(lastEvent', expense, expense', touched', errors', formMessage',
                             isSubmitting')]_vars

\* createExpense has just failed for an expense of 1.5 in category Education,
\* and the two entered values are still in the form
SubmissionFailedWitness ==
    /\ lastEvent.type = "rejected"
    /\ expense.amount = <<"1", ".", "5">>
    /\ expense.category = "Education"
    /\ formMessage = "Failed to add expense. Please try again."
    /\ ~isSubmitting

\* isSubmitting is true exactly while a createExpense call is under way, and
\* there is never more than one
OneSubmissionAtATime ==
    /\ isSubmitting <=> (createExpenseCalls # {})
    /\ Cardinality(createExpenseCalls) <= 1

\* a step starts a createExpense call only from a form that is not submitting,
\* and isSubmitting falls only when the call settles
SubmittingStep ==
    /\ (createExpenseCalls' \ createExpenseCalls # {}) =>
          /\ ~isSubmitting
          /\ isSubmitting'
          /\ lastEvent'.type = "submit"
    /\ (isSubmitting /\ ~isSubmitting') => lastEvent'.type \in {"resolved", "rejected"}

\* C24: isSubmitting is true from the start of a validated submission until
\* createExpense settles and is false again after both success and failure; the
\* submit control is disabled while it is true, so at most one createExpense
\* request is in flight at any time and every started submission eventually
\* re-enables the form.
SubmittingBracketsRequest ==
    /\ []OneSubmissionAtATime
    /\ [][SubmittingStep]_vars
    /\ (isSubmitting ~> ~isSubmitting)

\* a createExpense call is under way and the user has gone on to blur a field
SubmittingWitness ==
    /\ isSubmitting
    /\ Cardinality(createExpenseCalls) = 1
    /\ lastEvent.type = "blur"
    /\ \E call \in createExpenseCalls : call.amount = ToNumber(<<"5">>)

\* C25: in the expenses list, isLoading is true whenever at least one
\* getExpenses request is in flight, and becomes false only when none is, for
\* every overlap of requests started by filter changes and by the debounced
\* search.
LoadingCoversRequests == (getExpensesCalls # <<>>) => listIsLoading

====
